---- MODULE Spec2Model ----
(***************************************************************************)
(* A model of sfcsv (src/sfcsv.h): parse_line, the quote-run-counting CSV  *)
(* line decoder with its strict and loose modes, and encode_field /        *)
(* encode_line, the encoder.                                               *)
(*                                                                         *)
(* A string is a sequence of one-character strings.  An iterator into a    *)
(* string is a 1-based index; the end iterator of a string x is Len(x)+1.  *)
(* One action is one iteration of a loop of the code (the for loop of      *)
(* parse_line, the while loop of encode_line) or the code after the loop.  *)
(***************************************************************************)
EXTENDS Integers, Sequences, FiniteSets, TLC

(***************************************************************************)
(* Bounds of the model.                                                    *)
(***************************************************************************)
\* the longest line handed to parse_line directly
MaxLineLen == 6
\* the longest line of each of two calls whose steps interleave
MaxCallLineLen == 2
\* the most fields handed to encode_line
MaxFields == 2
\* the most characters handed to encode_line: n fields hold at most
\* MaxFieldChars \div n characters each
MaxFieldChars == 4

(***************************************************************************)
(* Characters.                                                             *)
(***************************************************************************)
DQUOTE == "\""
COMMA == ","
SEMI == ";"
NL == "\n"
\* the characters of the modelled inputs: the quote, two separators, the
\* line terminator and one ordinary character
Alphabet == {DQUOTE, COMMA, SEMI, NL, "a"}
\* the values of parse_line's parameter sep
Separators == {COMMA, SEMI}
\* the values of encode_line's parameter sep (a string)
EncSeparators == {<<COMMA>>, <<SEMI>>}
\* enum class mode
Modes == {"strict", "loose"}

\* the messages of the three csv_error exceptions
UnexpectedQuoteInUnquotedField == "Double quotes not permitted in non-quoted fields"
InvalidSeparatorAfterQuotedField == "Invalid separator after a field"
NewlineOutsideQuotedField == "Newline characters are not permitted in non-quoted fields"

StringsUpTo(n) == UNION {[1..k -> Alphabet] : k \in 0..n}
Lines == StringsUpTo(MaxLineLen)

\* the lines of two calls that run together
CallLines == StringsUpTo(MaxCallLineLen)
FieldSeqs ==
    {<<>>} \cup UNION {[1..n -> StringsUpTo(MaxFieldChars \div n)] : n \in 1..MaxFields}

VARIABLES
    origin,   \* "line": the caller hands s to parse_line; "fields": s is encode_line's output
    fields,   \* encode_line: the range [start, end) of fields to encode
    esep,     \* encode_line: the parameter sep
    start,    \* encode_line: the iterator start
    eout,     \* encode_line: the items written to the output iterator out
    epc,      \* encode_line: "idle" (not called), "loop", "done"
    s,        \* parse_line: the line
    sep,      \* parse_line: the separator
    pmode,    \* parse_line: the mode
    d,        \* parse_line: the locals it, in_quotes, field, the sink out, and pc, err
    nsep,     \* history: the separators scanned outside a quoted field
    niter,    \* history: the iterations of the for loop entered
    s2,       \* a second call of parse_line: the line
    sep2,     \* a second call of parse_line: the separator
    pmode2,   \* a second call of parse_line: the mode
    d2        \* a second call of parse_line: its locals, sink, pc and err

\* the second call, which only SpecTwo makes
call2 == <<s2, sep2, pmode2, d2>>

vars == <<origin, fields, esep, start, eout, epc, s, sep, pmode, d, nsep, niter, call2>>

(***************************************************************************)
(* default_policy                                                          *)
(***************************************************************************)
\* append(str, c)
append(str, ch) == Append(str, ch)

\* append(str, count, c)
append_n(str, count, ch) == str \o [i \in 1..count |-> ch]

\* empty(str)
empty(str) == str = <<>>

(***************************************************************************)
(* parse_line                                                              *)
(***************************************************************************)
\* the state on entry to the for loop
parse_line_entry ==
    [it |-> 1, in_quotes |-> FALSE, field |-> <<>>, out |-> <<>>,
     pc |-> "scan", err |-> "none"]

\* std::find_if(it, end, c != '"'): one past the last quote of the run at i
last_quote(line, i) ==
    LET rest == {j \in i..Len(line) : line[j] # DQUOTE}
    IN  IF rest = {} THEN Len(line) + 1
        ELSE CHOOSE j \in rest : \A k \in rest : j <= k

\* std::distance(it, last_quote)
num_quotes(line, i) == last_quote(line, i) - i

\* mutant of throw: the accumulator is flushed to the sink before the throw
throw_flushing(st, msg) ==
    [st EXCEPT !.out = Append(@, st.field), !.pc = "error", !.err = msg]

\* throw csv_error(msg): the call ends, the locals are as they stand
throw(st, msg) == [st EXCEPT !.pc = "error", !.err = msg]

\* mutant of next_it: the iterator is not advanced
next_it_stays(st) == st

\* ++it of the for statement
next_it(st) == [st EXCEPT !.it = @ + 1]

\* mutant of quote_in_unquoted: the mode is not looked at, the quote always throws
quote_in_unquoted_always_throws(md, st) ==
    [st EXCEPT !.pc = "error", !.err = UnexpectedQuoteInUnquotedField]

\* mutant of quote_in_unquoted: the mode is not looked at, the quote is always appended
quote_in_unquoted_always_appends(md, st) ==
    [st EXCEPT !.field = Append(@, DQUOTE), !.it = @ + 1]

\* mutant of quote_in_unquoted: in loose mode the quote opens a quoted field
quote_in_unquoted_opens(md, st) ==
    IF md = "loose"
    THEN [st EXCEPT !.in_quotes = TRUE, !.it = @ + 1]
    ELSE [st EXCEPT !.pc = "error", !.err = UnexpectedQuoteInUnquotedField]

\* a quote outside a quoted field whose accumulator is not empty
quote_in_unquoted(md, st) ==
    IF md = "loose"
    THEN next_it([st EXCEPT !.field = append(@, DQUOTE)])
    ELSE throw(st, UnexpectedQuoteInUnquotedField)

\* mutant of keeps_run: in_quotes is not looked at, an opening run is kept too
keeps_run_outside_quotes(line, sp, md, st) ==
    LET lq == last_quote(line, st.it)
        enclosing == num_quotes(line, st.it) % 2 # 0
    IN  /\ enclosing
        /\ lq # Len(line) + 1
        /\ line[lq] # sp
        /\ md = "loose"

\* the condition of the loose branch that keeps an odd run inside a quoted field
keeps_run(line, sp, md, st) ==
    LET lq == last_quote(line, st.it)
        enclosing == num_quotes(line, st.it) % 2 # 0
    IN  /\ st.in_quotes
        /\ enclosing
        /\ lq # Len(line) + 1
        /\ line[lq] # sp
        /\ md = "loose"

\* mutant of keep_run: the run that is kept is halved like a counted one
keep_run_halved(line, st) ==
    [st EXCEPT !.field = @ \o [i \in 1..((num_quotes(line, st.it) - 1) \div 2) |-> DQUOTE],
               !.it = last_quote(line, st.it)]

\* the loose branch: the whole run is appended; it = last_quote, --it, ++it
keep_run(line, st) ==
    [st EXCEPT !.field = append_n(@, num_quotes(line, st.it), DQUOTE),
               !.it = last_quote(line, st.it)]

\* mutant of ignore_quotes: two quotes are ignored in every even run
ignore_quotes_always_two(enclosing, fld) ==
    IF enclosing THEN 1 ELSE 2

\* mutant of ignore_quotes: the case of the empty field is missing
ignore_quotes_no_empty_field(enclosing, fld) ==
    IF enclosing THEN 1 ELSE 0

\* one quote ignored for an enclosing group, two for an empty field or a
\* field with only quotes, zero for embedded groups
ignore_quotes(enclosing, fld) ==
    IF enclosing THEN 1 ELSE IF empty(fld) THEN 2 ELSE 0

\* mutant of count_run: an enclosing run sets in_quotes and never clears it
count_run_opens_only(line, st) ==
    LET n == num_quotes(line, st.it)
        enclosing == n % 2 # 0
    IN  [st EXCEPT !.field = append_n(@, (n - ignore_quotes(enclosing, st.field)) \div 2, DQUOTE),
                   !.in_quotes = IF enclosing THEN TRUE ELSE @,
                   !.it = last_quote(line, st.it)]

\* mutant of count_run: every run toggles in_quotes, an even one too
count_run_always_toggles(line, st) ==
    LET n == num_quotes(line, st.it)
        enclosing == n % 2 # 0
    IN  [st EXCEPT !.field = append_n(@, (n - ignore_quotes(enclosing, st.field)) \div 2, DQUOTE),
                   !.in_quotes = ~@,
                   !.it = last_quote(line, st.it)]

\* the run is halved, an enclosing run toggles in_quotes; it = last_quote
count_run(line, st) ==
    LET n == num_quotes(line, st.it)
        enclosing == n % 2 # 0
    IN  [st EXCEPT !.field = append_n(@, (n - ignore_quotes(enclosing, st.field)) \div 2, DQUOTE),
                   !.in_quotes = IF enclosing THEN ~@ ELSE @,
                   !.it = last_quote(line, st.it)]

\* mutant of bad_separator: the character is compared with ',' and not with sep
bad_separator_comma(line, sp, md, st) ==
    /\ ~st.in_quotes
    /\ st.it # Len(line) + 1
    /\ line[st.it] # COMMA
    /\ md = "strict"

\* the check after a counted run (st is the state after it = last_quote)
bad_separator(line, sp, md, st) ==
    /\ ~st.in_quotes
    /\ st.it # Len(line) + 1
    /\ line[st.it] # sp
    /\ md = "strict"

\* a quote that is measured as a run; --it and ++it cancel
quote_run(line, sp, md, st) ==
    IF keeps_run(line, sp, md, st)
    THEN keep_run(line, st)
    ELSE LET after == count_run(line, st)
         IN  IF bad_separator(line, sp, md, after)
             THEN throw(after, InvalidSeparatorAfterQuotedField)
             ELSE after

\* mutant of separator_ends_field: the field replaces what the sink holds
separator_ends_field_overwrites(st) ==
    next_it([st EXCEPT !.out = <<st.field>>, !.field = <<>>])

\* mutant of separator_ends_field: the accumulator is not cleared
separator_ends_field_no_clear(st) ==
    next_it([st EXCEPT !.out = Append(@, st.field)])

\* *out++ = std::move(field); field.clear()
separator_ends_field(st) ==
    next_it([st EXCEPT !.out = Append(@, st.field), !.field = <<>>])

\* mutant of newline_in_unquoted: the newline is appended
newline_in_unquoted_appended(st) ==
    [st EXCEPT !.field = Append(@, NL), !.it = @ + 1]

\* a newline outside a quoted field in strict mode
newline_in_unquoted(st) == throw(st, NewlineOutsideQuotedField)

\* mutant of append_char: a newline is dropped
append_char_skips_newline(line, st) ==
    next_it([st EXCEPT !.field = IF line[st.it] = NL THEN @ ELSE append(@, line[st.it])])

\* any other character
append_char(line, st) ==
    next_it([st EXCEPT !.field = append(@, line[st.it])])

\* mutant of loop_body: a separator ends the field inside a quoted field too
loop_body_separator_in_quotes(line, sp, md, st) ==
    LET c == line[st.it]
    IN  IF c = DQUOTE
        THEN IF ~st.in_quotes /\ ~empty(st.field)
             THEN quote_in_unquoted(md, st)
             ELSE quote_run(line, sp, md, st)
        ELSE IF c = sp
        THEN separator_ends_field(st)
        ELSE IF c = NL /\ ~st.in_quotes /\ md = "strict"
        THEN newline_in_unquoted(st)
        ELSE append_char(line, st)

\* the body of the for loop and its ++it, at the character line[st.it]
loop_body(line, sp, md, st) ==
    LET c == line[st.it]
    IN  IF c = DQUOTE
        THEN IF ~st.in_quotes /\ ~empty(st.field)
             THEN quote_in_unquoted(md, st)
             ELSE quote_run(line, sp, md, st)
        ELSE IF c = sp /\ ~st.in_quotes
        THEN separator_ends_field(st)
        ELSE IF c = NL /\ ~st.in_quotes /\ md = "strict"
        THEN newline_in_unquoted(st)
        ELSE append_char(line, st)

\* mutant of push_last_field: a quoted field that is still open is an error
push_last_field_unterminated(st) ==
    IF st.in_quotes
    THEN throw(st, "Unterminated quoted field")
    ELSE [st EXCEPT !.out = Append(@, st.field), !.pc = "done"]

\* mutant of push_last_field: an empty last field is not pushed
push_last_field_unless_empty(st) ==
    [st EXCEPT !.out = IF st.field = <<>> THEN @ ELSE Append(@, st.field),
               !.pc = "done"]

\* after the loop: *out++ = std::move(field), and parse_line returns
push_last_field(st) == [st EXCEPT !.out = Append(@, st.field), !.pc = "done"]

\* the for loop from the state st on, and the code after it
RECURSIVE parse_loop(_, _, _, _)
parse_loop(line, sp, md, st) ==
    IF st.pc # "scan" THEN st
    ELSE IF st.it = Len(line) + 1 THEN push_last_field(st)
    ELSE parse_loop(line, sp, md, loop_body(line, sp, md, st))

\* a whole call of parse_line
parse_line(line, sp, md) == parse_loop(line, sp, md, parse_line_entry)

(***************************************************************************)
(* encode_field, encode_line                                               *)
(***************************************************************************)
\* mutant of encode_chars: a quote is not doubled
encode_chars_undoubled(str) == str

\* the range-for of encode_field: every character, a quote twice
RECURSIVE encode_chars(_)
encode_chars(str) ==
    IF str = <<>> THEN <<>>
    ELSE (IF Head(str) = DQUOTE THEN <<DQUOTE, DQUOTE>> ELSE <<Head(str)>>)
         \o encode_chars(Tail(str))

\* mutant of encode_field: a field without a quote is written as it is
encode_field_minimal(str) ==
    IF \A i \in 1..Len(str) : str[i] # DQUOTE
    THEN str
    ELSE <<DQUOTE>> \o encode_chars(str) \o <<DQUOTE>>

\* mutant of encode_field: the closing quote is missing
encode_field_unclosed(str) == <<DQUOTE>> \o encode_chars(str)

\* out += '"'; the range-for; out += '"'
encode_field(str) == <<DQUOTE>> \o encode_chars(str) \o <<DQUOTE>>

\* the capacity encode_field reserves
encode_reserve(str) ==
    Len(str) + 2 + Cardinality({i \in 1..Len(str) : str[i] = DQUOTE})

\* mutant of encode_items: the separator is written after every field
encode_items_trailing_sep(flds, i, sp) == <<encode_field(flds[i]), sp>>

\* the items written by one iteration of encode_line's while loop
encode_items(flds, i, sp) ==
    IF i + 1 # Len(flds) + 1
    THEN <<encode_field(flds[i]), sp>>
    ELSE <<encode_field(flds[i])>>

\* the string an ostringstream holds after the items were written to it
RECURSIVE os_str(_)
os_str(items) ==
    IF items = <<>> THEN <<>> ELSE Head(items) \o os_str(Tail(items))

(***************************************************************************)
(* The state machine.                                                      *)
(***************************************************************************)
\* no second call is made
NoCall2 ==
    /\ s2 = <<>>
    /\ sep2 = COMMA
    /\ pmode2 = "strict"
    /\ d2 = [parse_line_entry EXCEPT !.pc = "wait"]

Init ==
    /\ sep \in Separators
    /\ pmode \in Modes
    /\ nsep = 0
    /\ niter = 0
    /\ NoCall2
    /\ start = 1
    /\ eout = <<>>
    /\ \/ /\ origin = "line"
          /\ s \in Lines
          /\ fields = <<>>
          /\ esep = <<COMMA>>
          /\ epc = "idle"
          /\ d = parse_line_entry
       \/ /\ origin = "fields"
          /\ fields \in FieldSeqs
          /\ esep \in EncSeparators
          /\ epc = "loop"
          /\ s = <<>>
          /\ d = [parse_line_entry EXCEPT !.pc = "wait"]

\* one iteration of encode_line's while loop
EncodeField ==
    /\ epc = "loop"
    /\ start # Len(fields) + 1
    /\ eout' = eout \o encode_items(fields, start, esep)
    /\ start' = start + 1
    /\ UNCHANGED <<origin, fields, esep, epc, s, sep, pmode, d, nsep, niter, call2>>

\* encode_line returns; the caller reads the line written and calls parse_line
EncodeReturn ==
    /\ epc = "loop"
    /\ start = Len(fields) + 1
    /\ epc' = "done"
    /\ s' = os_str(eout)
    /\ d' = parse_line_entry
    /\ UNCHANGED <<origin, fields, esep, start, eout, sep, pmode, nsep, niter, call2>>

Scanning == d.pc = "scan" /\ d.it # Len(s) + 1
AtQuote == Scanning /\ s[d.it] = DQUOTE
Iterate ==
    /\ d' = loop_body(s, sep, pmode, d)
    /\ niter' = niter + 1
    /\ UNCHANGED <<origin, fields, esep, start, eout, epc, s, sep, pmode, call2>>

\* a quote in a started unquoted field, loose mode: appended
QuoteLiteral ==
    /\ AtQuote /\ ~d.in_quotes /\ ~empty(d.field) /\ pmode = "loose"
    /\ Iterate /\ UNCHANGED nsep

\* a quote in a started unquoted field, strict mode: an error
QuoteError ==
    /\ AtQuote /\ ~d.in_quotes /\ ~empty(d.field) /\ pmode = "strict"
    /\ Iterate /\ UNCHANGED nsep

\* an odd run inside a quoted field that loose mode keeps
QuoteRunKept ==
    /\ AtQuote /\ ~(~d.in_quotes /\ ~empty(d.field))
    /\ keeps_run(s, sep, pmode, d)
    /\ Iterate /\ UNCHANGED nsep

\* a run that is counted, with a valid character after it
QuoteRunCounted ==
    /\ AtQuote /\ ~(~d.in_quotes /\ ~empty(d.field))
    /\ ~keeps_run(s, sep, pmode, d)
    /\ ~bad_separator(s, sep, pmode, count_run(s, d))
    /\ Iterate /\ UNCHANGED nsep

\* a run that is counted, with an invalid character after it: an error
SeparatorError ==
    /\ AtQuote /\ ~(~d.in_quotes /\ ~empty(d.field))
    /\ ~keeps_run(s, sep, pmode, d)
    /\ bad_separator(s, sep, pmode, count_run(s, d))
    /\ Iterate /\ UNCHANGED nsep

\* a separator outside a quoted field
SeparatorEndsField ==
    /\ Scanning /\ s[d.it] # DQUOTE
    /\ s[d.it] = sep /\ ~d.in_quotes
    /\ Iterate /\ nsep' = nsep + 1

\* a newline outside a quoted field, strict mode: an error
NewlineError ==
    /\ Scanning /\ s[d.it] # DQUOTE
    /\ ~(s[d.it] = sep /\ ~d.in_quotes)
    /\ s[d.it] = NL /\ ~d.in_quotes /\ pmode = "strict"
    /\ Iterate /\ UNCHANGED nsep

\* any other character
AppendChar ==
    /\ Scanning /\ s[d.it] # DQUOTE
    /\ ~(s[d.it] = sep /\ ~d.in_quotes)
    /\ ~(s[d.it] = NL /\ ~d.in_quotes /\ pmode = "strict")
    /\ Iterate /\ UNCHANGED nsep

\* the end of the line: the last field is pushed and parse_line returns
PushLastField ==
    /\ d.pc = "scan" /\ d.it = Len(s) + 1
    /\ d' = push_last_field(d)
    /\ UNCHANGED <<origin, fields, esep, start, eout, epc, s, sep, pmode, nsep, niter, call2>>

Next ==
    \/ EncodeField
    \/ EncodeReturn
    \/ QuoteLiteral
    \/ QuoteError
    \/ QuoteRunKept
    \/ QuoteRunCounted
    \/ SeparatorError
    \/ SeparatorEndsField
    \/ NewlineError
    \/ AppendChar
    \/ PushLastField

Spec == Init /\ [][Next]_vars

(***************************************************************************)
(* Two calls of parse_line whose steps interleave.                         *)
(***************************************************************************)
\* mutant of call_locals: field is one object that the two calls share
call_locals_static_field(own, other) == [own EXCEPT !.field = other.field]

\* in_quotes, field and it are automatic objects of the call, s, out, sep and
\* pmode its parameters: an iteration reads those of its own call
call_locals(own, other) == own

\* one step of a call: an iteration of the for loop, or the code after it
decode_step(line, sp, md, st) ==
    IF st.it # Len(line) + 1
    THEN loop_body(line, sp, md, st)
    ELSE push_last_field(st)

InitTwo ==
    /\ origin = "line"
    /\ fields = <<>>
    /\ esep = <<COMMA>>
    /\ start = 1
    /\ eout = <<>>
    /\ epc = "idle"
    /\ nsep = 0
    /\ niter = 0
    /\ s \in CallLines
    /\ sep \in Separators
    /\ pmode \in Modes
    /\ d = parse_line_entry
    /\ s2 \in CallLines
    /\ sep2 \in Separators
    /\ pmode2 \in Modes
    /\ d2 = parse_line_entry

\* a step of the first call
Call1Step ==
    /\ d.pc = "scan"
    /\ d' = decode_step(s, sep, pmode, call_locals(d, d2))
    /\ UNCHANGED <<origin, fields, esep, start, eout, epc, s, sep, pmode, nsep, niter, call2>>

\* a step of the second call
Call2Step ==
    /\ d2.pc = "scan"
    /\ d2' = decode_step(s2, sep2, pmode2, call_locals(d2, d))
    /\ UNCHANGED <<origin, fields, esep, start, eout, epc, s, sep, pmode, nsep, niter, d,
                   s2, sep2, pmode2>>

NextTwo ==
    \/ Call1Step
    \/ Call2Step

SpecTwo == InitTwo /\ [][NextTwo]_vars

(***************************************************************************)
(* The earlier parse_line, which has no mode, run on the line after the    *)
(* final parse_line has decoded it in strict mode.                         *)
(***************************************************************************)
\* the string literal of the earlier "Invalid separator" throw
InvalidSeparatorLiteral == "Invalid separator after a field: "

\* the value of a character of the alphabet as an integer
char_code(ch) ==
    CASE ch = NL -> 10
      [] ch = DQUOTE -> 34
      [] ch = COMMA -> 44
      [] ch = SEMI -> 59
      [] ch = "a" -> 97

\* what a build can do with a pointer past the end of the literal: the
\* exception carries whatever bytes are found there, or the program aborts
UndefinedOutcomes == {"message", "crash"}
UnknownMessage == "?"

\* the state on entry to the for loop; what is the message of the exception
earlier_entry ==
    [it |-> 1, in_quotes |-> FALSE, field |-> <<>>, out |-> <<>>,
     pc |-> "scan", err |-> "none", what |-> ""]

\* throw std::runtime_error(msg); err names the throw statement
earlier_throw(st, reason, msg) ==
    [st EXCEPT !.pc = "error", !.err = reason, !.what = msg]

\* throw std::runtime_error("Invalid separator after a field: " + *(it)):
\* the literal decays to a pointer and the character is added to it
earlier_invalid_separator(line, st, ub) ==
    LET offset == char_code(line[st.it])
    IN  IF offset <= Len(InvalidSeparatorLiteral)
        THEN earlier_throw(st, InvalidSeparatorAfterQuotedField,
                           SubSeq(InvalidSeparatorLiteral, offset + 1,
                                  Len(InvalidSeparatorLiteral)))
        ELSE IF ub = "message"
        THEN earlier_throw(st, InvalidSeparatorAfterQuotedField, UnknownMessage)
        ELSE [st EXCEPT !.pc = "crash"]

\* the quotes the first snapshot appends for a run of n quotes
first_quotes(n, fld) ==
    IF n % 2 = 0
    THEN IF fld = <<>> THEN (n - 2) \div 2 ELSE n \div 2
    ELSE (n - 1) \div 2

\* the quotes the earlier snapshot appends for a run of n quotes
earlier_quotes(n, fld) ==
    LET enclosing == n % 2 # 0
        ignored == IF enclosing THEN 1 ELSE IF fld = <<>> THEN 2 ELSE 0
    IN  (n - ignored) \div 2

\* a quote: the run is measured and counted; --it and ++it cancel
earlier_quote_run(line, sp, st, ub) ==
    LET lq == last_quote(line, st.it)
        n == lq - st.it
        enclosing == n % 2 # 0
        after == [st EXCEPT !.field = @ \o [i \in 1..earlier_quotes(n, st.field) |-> DQUOTE],
                            !.in_quotes = IF enclosing THEN ~@ ELSE @,
                            !.it = lq]
    IN  IF ~after.in_quotes /\ after.it # Len(line) + 1 /\ line[after.it] # sp
        THEN earlier_invalid_separator(line, after, ub)
        ELSE after

\* the body of the earlier for loop and its ++it, at the character line[st.it]
earlier_loop_body(line, sp, st, ub) ==
    LET c == line[st.it]
    IN  IF c = DQUOTE
        THEN IF ~st.in_quotes /\ st.field # <<>>
             THEN earlier_throw(st, UnexpectedQuoteInUnquotedField,
                                UnexpectedQuoteInUnquotedField)
             ELSE earlier_quote_run(line, sp, st, ub)
        ELSE IF c = sp /\ ~st.in_quotes
        THEN [st EXCEPT !.out = Append(@, st.field), !.field = <<>>, !.it = @ + 1]
        ELSE IF c = NL /\ ~st.in_quotes
        THEN earlier_throw(st, NewlineOutsideQuotedField, NewlineOutsideQuotedField)
        ELSE [st EXCEPT !.field = Append(@, c), !.it = @ + 1]

InitEarlier ==
    /\ origin = "line"
    /\ fields = <<>>
    /\ esep = <<COMMA>>
    /\ start = 1
    /\ eout = <<>>
    /\ epc = "idle"
    /\ nsep = 0
    /\ niter = 0
    /\ s \in Lines
    /\ sep \in Separators
    /\ pmode = "strict"
    /\ d = parse_line_entry
    /\ s2 = s
    /\ sep2 = sep
    /\ pmode2 = "strict"
    /\ d2 = earlier_entry

\* the final parse_line has ended
FinalEnded == d.pc \in {"done", "error"}

\* an iteration of the earlier for loop
EarlierIterate ==
    /\ FinalEnded
    /\ d2.pc = "scan" /\ d2.it # Len(s2) + 1
    /\ \E ub \in UndefinedOutcomes : d2' = earlier_loop_body(s2, sep2, d2, ub)
    /\ UNCHANGED <<origin, fields, esep, start, eout, epc, s, sep, pmode, nsep, niter, d,
                   s2, sep2, pmode2>>

\* the end of the line: the last field is pushed and the earlier parse_line returns
EarlierPushLastField ==
    /\ FinalEnded
    /\ d2.pc = "scan" /\ d2.it = Len(s2) + 1
    /\ d2' = [d2 EXCEPT !.out = Append(@, d2.field), !.pc = "done"]
    /\ UNCHANGED <<origin, fields, esep, start, eout, epc, s, sep, pmode, nsep, niter, d,
                   s2, sep2, pmode2>>

NextEarlier ==
    \/ QuoteError
    \/ QuoteRunCounted
    \/ SeparatorError
    \/ SeparatorEndsField
    \/ NewlineError
    \/ AppendChar
    \/ PushLastField
    \/ EarlierIterate
    \/ EarlierPushLastField

SpecEarlier == InitEarlier /\ [][NextEarlier]_vars

TypeOK ==
    /\ origin \in {"line", "fields"}
    /\ d.pc \in {"wait", "scan", "done", "error"}
    /\ d.it \in 1..(Len(s) + 1)
    /\ d.in_quotes \in BOOLEAN
    /\ nsep \in Nat
    /\ niter \in Nat
    /\ d2.pc \in {"wait", "scan", "done", "error", "crash"}
    /\ d2.it \in 1..(Len(s2) + 1)

\* the steps of the state machine end where the whole call ends
StepsAgree == d.pc \in {"done", "error"} => d = parse_line(s, sep, pmode)

(***************************************************************************)
(* The claims.                                                             *)
(***************************************************************************)
\* a field with no line terminator
NoNewline(str) == \A i \in 1..Len(str) : str[i] # NL

\* the line is encode_line(fields, ",") and is decoded with ',' in strict mode
StrictRoundTrip ==
    /\ origin = "fields"
    /\ esep = <<COMMA>>
    /\ sep = COMMA
    /\ pmode = "strict"
    /\ \A i \in 1..Len(fields) : NoNewline(fields[i])

\* C1, as stated: for every sequence of fields of any length, none holding a
\* line terminator, decoding encode_line(fields, ",") with ',' in strict mode
\* succeeds and returns the fields.
C1_RoundTripAnyLength ==
    StrictRoundTrip =>
        /\ d.pc # "error"
        /\ d.pc = "done" => d.out = fields

\* C1, amended: the same for every non-empty sequence of fields (the empty
\* sequence encodes to the empty line, which decodes to one empty field).
C1_RoundTripNonEmpty ==
    (StrictRoundTrip /\ fields # <<>>) =>
        /\ d.pc # "error"
        /\ d.pc = "done" => d.out = fields

\* C1, witness: a round trip of two fields, one with a quote and a separator,
\* one empty, has completed.
C1_Witness ==
    /\ StrictRoundTrip
    /\ d.pc = "done"
    /\ Len(fields) = 2
    /\ \E i \in 1..2 : fields[i] = <<>>
    /\ \E i \in 1..2 : \E j, k \in 1..Len(fields[i]) :
           fields[i][j] = DQUOTE /\ fields[i][k] = COMMA

\* C2: a decode that completes has emitted one field more than the separators
\* it scanned outside a quoted field: the accumulator is emitted and reset at
\* each such separator, emitted once more at the end of the line, and the sink
\* is written by no other step; so the result is never empty.
C2_FieldCount ==
    [][ /\ nsep' \in {nsep, nsep + 1}
        /\ (nsep' = nsep + 1) <=> (Scanning /\ s[d.it] = sep /\ ~d.in_quotes)
        /\ nsep' = nsep + 1 =>
             /\ d'.out = Append(d.out, d.field)
             /\ d'.field = <<>>
        /\ (d.pc = "scan" /\ d'.pc = "done") =>
             /\ d'.out = Append(d.out, d.field)
             /\ Len(d'.out) = nsep' + 1
             /\ d'.out # <<>>
        /\ (nsep' = nsep /\ d'.pc # "done") => d'.out = d.out
        /\ (s = <<>> /\ d'.pc = "done") => d'.out = << <<>> >>
        /\ (s = <<sep>> /\ d'.pc = "done") => d'.out = << <<>>, <<>> >>
      ]_vars

\* C2, witness: a decode has completed after two separators outside quoted
\* fields and at least one separator character inside a quoted field.
C2_Witness ==
    /\ d.pc = "done"
    /\ nsep = 2
    /\ Len(d.out) = 3
    /\ Cardinality({i \in 1..Len(s) : s[i] = sep}) > nsep

\* C3: in loose mode decode never fails: no error is raised in any state, a
\* decode that has not returned can take a step, and a decode that has
\* returned has scanned the whole line and emitted fields.
C3_LooseNeverFails ==
    pmode = "loose" =>
        /\ d.pc # "error"
        /\ d.err = "none"
        /\ d.pc = "done" => (d.it = Len(s) + 1 /\ d.out # <<>>)
        /\ d.pc = "scan" => (d.it <= Len(s) + 1 /\ ENABLED Next)

\* C3, witness: a loose decode has returned on a line that strict mode rejects
\* for a quote in an unquoted field, with a newline outside quotes in it too.
C3_Witness ==
    /\ pmode = "loose"
    /\ d.pc = "done"
    /\ parse_line(s, sep, "strict").err = UnexpectedQuoteInUnquotedField
    /\ \E i \in 1..Len(s) : s[i] = NL

\* C4, as stated: when decode raises an error the sink has received no field.
C4_NoFieldOnFailure == d.pc = "error" => d.out = <<>>

\* C4, amended: when decode raises an error, the sink has received exactly the
\* fields completed before the offending character, one per separator scanned
\* outside a quoted field; the accumulator in progress is not emitted, and
\* the sink is empty only when no such separator precedes the error.
C4_OnlyCompletedFieldsOnFailure ==
    d.pc = "error" =>
        /\ Len(d.out) = nsep
        /\ (d.out = <<>>) <=> (nsep = 0)

\* C4, witness: a decode has failed after two completed fields, with a
\* non-empty accumulator.
C4_Witness ==
    /\ d.pc = "error"
    /\ nsep = 2
    /\ d.out # <<>>
    /\ d.field # <<>>

\* the quotes of a run of n
Quotes(n) == [i \in 1..n |-> DQUOTE]

\* the decoder is at a quote outside a quoted field, the accumulator not empty
AtQuoteInUnquoted == AtQuote /\ ~d.in_quotes /\ d.field # <<>>

\* the decoder is at a quote that starts a run it measures
AtRun == AtQuote /\ ~(~d.in_quotes /\ d.field # <<>>)

\* the length of the run at the cursor, and the position after it
RunLen == num_quotes(s, d.it)
AfterRun == last_quote(s, d.it)

\* the character after the run at the cursor is neither the separator nor the end
RunBeforeText == AfterRun # Len(s) + 1 /\ s[AfterRun] # sep

\* C5: in strict mode a quote scanned outside a quoted field with a non-empty
\* accumulator makes decode fail with UnexpectedQuoteInUnquotedField, whatever
\* the length of the run and whatever follows; the error has no other cause.
C5_StrictQuoteInUnquoted ==
    [][ /\ (AtQuoteInUnquoted /\ pmode = "strict") =>
             /\ d'.pc = "error"
             /\ d'.err = UnexpectedQuoteInUnquotedField
        /\ d'.err = UnexpectedQuoteInUnquotedField =>
             (AtQuoteInUnquoted /\ pmode = "strict")
      ]_vars

\* C5, witness: decode has failed at a run of two quotes in the unquoted field
\* after a completed field, with more text after the run.
C5_Witness ==
    /\ d.err = UnexpectedQuoteInUnquotedField
    /\ nsep >= 1
    /\ d.it + 2 <= Len(s)
    /\ s[d.it + 1] = DQUOTE
    /\ s[d.it + 2] = "a"

\* C6: in strict mode, when a run has been consumed and the decoder is then
\* outside a quoted field, the next character is the separator or the end of
\* the line, or else decode fails with InvalidSeparatorAfterQuotedField; a
\* close is never taken back.
C6_StrictSeparatorAfterRun ==
    [][ (AtRun /\ pmode = "strict") =>
            LET outside == (d.in_quotes <=> RunLen % 2 # 0)
            IN  /\ (outside /\ RunBeforeText) =>
                     /\ d'.pc = "error"
                     /\ d'.err = InvalidSeparatorAfterQuotedField
                /\ ~(outside /\ RunBeforeText) =>
                     /\ d'.pc = "scan"
                     /\ d'.it = AfterRun
                     /\ d'.in_quotes = ~outside
      ]_vars

\* C6, witness: with the separator ';', decode has failed at a comma after the
\* quote that closes a quoted field.
C6_Witness ==
    /\ d.err = InvalidSeparatorAfterQuotedField
    /\ sep = SEMI
    /\ s[d.it] = COMMA
    /\ d.field # <<>>
    /\ s[1] = DQUOTE

\* C7, as stated: in loose mode every odd run that is followed by neither the
\* separator nor the end of the line leaves in_quotes as it is and is appended
\* in full.
C7_LooseOddRunKept ==
    [][ (AtRun /\ pmode = "loose" /\ RunLen % 2 # 0 /\ RunBeforeText) =>
            /\ d'.in_quotes = d.in_quotes
            /\ d'.field = d.field \o Quotes(RunLen)
            /\ d'.it = AfterRun
      ]_vars

\* C7, amended: in loose mode every odd run scanned inside a quoted field that
\* is followed by neither the separator nor the end of the line leaves
\* in_quotes as it is and is appended in full, and scanning continues after
\* the run. (An odd run at the start of a field opens the quoted field.)
C7_LooseOddRunKeptInQuotes ==
    [][ (AtRun /\ pmode = "loose" /\ RunLen % 2 # 0 /\ RunBeforeText) =>
            IF d.in_quotes
            THEN /\ d'.in_quotes = TRUE
                 /\ d'.field = d.field \o Quotes(RunLen)
                 /\ d'.it = AfterRun
                 /\ d'.pc = "scan"
                 /\ d'.out = d.out
            ELSE /\ d'.in_quotes = TRUE
                 /\ d'.field = d.field \o Quotes((RunLen - 1) \div 2)
                 /\ d'.it = AfterRun
                 /\ d'.pc = "scan"
      ]_vars

\* C7, witness: a run of three quotes inside a quoted field has been kept:
\* the decoder is still inside the quoted field, at text after the run, and
\* the accumulator ends with the three quotes.
C7_Witness ==
    /\ pmode = "loose"
    /\ d.pc = "scan"
    /\ d.in_quotes
    /\ d.it >= 5
    /\ d.it <= Len(s)
    /\ s[d.it] \notin {DQUOTE, sep}
    /\ \A k \in 1..3 : s[d.it - k] = DQUOTE
    /\ s[d.it - 4] # DQUOTE
    /\ Len(d.field) >= 4
    /\ \A k \in 0..2 : d.field[Len(d.field) - k] = DQUOTE

\* the decoder is at a run at which strict mode raises the error of C6
StrictRejectsRun ==
    /\ AtRun
    /\ loop_body(s, sep, "strict", d).err = InvalidSeparatorAfterQuotedField

\* C8, as stated: in loose mode, at a run that strict mode rejects with
\* InvalidSeparatorAfterQuotedField, the close is taken back and every quote
\* of the run is kept in the field.
C8_LooseKeepsRejectedRun ==
    [][ (StrictRejectsRun /\ pmode = "loose") =>
            /\ d'.pc = "scan"
            /\ d'.field = d.field \o Quotes(RunLen)
      ]_vars

\* C8, amended: in loose mode, at a run that strict mode rejects with
\* InvalidSeparatorAfterQuotedField, decode goes on after the run; an odd run
\* inside a quoted field is taken back as a close and kept in full, but an
\* even run at the start of a field stays an empty quoted field and adds
\* (n - 2) / 2 quotes, so n / 2 + 1 of its quotes are dropped.
C8_LooseKeepsRejectedOddRun ==
    [][ (StrictRejectsRun /\ pmode = "loose") =>
            /\ d'.pc = "scan"
            /\ d'.it = AfterRun
            /\ d'.in_quotes = d.in_quotes
            /\ d.in_quotes =>
                 /\ RunLen % 2 # 0
                 /\ d'.field = d.field \o Quotes(RunLen)
            /\ ~d.in_quotes =>
                 /\ RunLen % 2 = 0
                 /\ d.field = <<>>
                 /\ d'.field = Quotes((RunLen - 2) \div 2)
      ]_vars

\* C8, witness: a loose decode has returned the fields of a line with a
\* single quote inside a quoted field, before text, where strict mode fails:
\* the quote is in the field.
C8_Witness ==
    /\ pmode = "loose"
    /\ d.pc = "done"
    /\ s = <<DQUOTE, "a", DQUOTE, "a", DQUOTE>>
    /\ parse_line(s, sep, "strict").err = InvalidSeparatorAfterQuotedField
    /\ d.out = << <<"a", DQUOTE, "a">> >>

\* C9: in loose mode a quote scanned outside a quoted field with a non-empty
\* accumulator is appended as one quote, the cursor moves on by one and
\* in_quotes stays false; so a line that starts an unquoted field and has no
\* separator is decoded to itself, every quote of it counted once.
C9_LooseQuoteLiteral ==
    [][ /\ (AtQuoteInUnquoted /\ pmode = "loose") =>
             /\ d'.field = Append(d.field, DQUOTE)
             /\ d'.it = d.it + 1
             /\ d'.in_quotes = FALSE
             /\ d'.pc = "scan"
             /\ d'.out = d.out
        /\ ( /\ pmode = "loose"
             /\ d.pc = "scan"
             /\ d'.pc = "done"
             /\ s # <<>>
             /\ s[1] \notin {DQUOTE, sep}
             /\ \A i \in 1..Len(s) : s[i] # sep ) => d'.out = <<s>>
      ]_vars

\* C9, witness: a run of two quotes in the middle of an unquoted field has
\* been scanned in loose mode: the accumulator ends with the two quotes.
C9_Witness ==
    /\ pmode = "loose"
    /\ d.pc = "scan"
    /\ ~d.in_quotes
    /\ d.it >= 4
    /\ s[d.it - 1] = DQUOTE
    /\ s[d.it - 2] = DQUOTE
    /\ s[d.it - 3] = "a"
    /\ Len(d.field) >= 3
    /\ d.field[Len(d.field)] = DQUOTE
    /\ d.field[Len(d.field) - 1] = DQUOTE
    /\ d.field[Len(d.field) - 2] = "a"

\* C10: a line terminator scanned outside a quoted field makes decode fail
\* with NewlineOutsideQuotedField in strict mode and is appended to the field
\* in loose mode, whether or not a field was completed before it.
C10_NewlineOutsideQuotes ==
    [][ (Scanning /\ s[d.it] = NL /\ ~d.in_quotes) =>
            /\ pmode = "strict" =>
                 /\ d'.pc = "error"
                 /\ d'.err = NewlineOutsideQuotedField
                 /\ d'.out = d.out
            /\ pmode = "loose" =>
                 /\ d'.pc = "scan"
                 /\ d'.field = Append(d.field, NL)
                 /\ d'.it = d.it + 1
                 /\ d'.in_quotes = FALSE
                 /\ d'.out = d.out
      ]_vars

\* C10, witness: a strict decode has failed at a line terminator outside a
\* quoted field, after a completed field.
C10_Witness ==
    /\ d.err = NewlineOutsideQuotedField
    /\ pmode = "strict"
    /\ nsep >= 1
    /\ d.out # <<>>
    /\ s[d.it] = NL
    /\ ~d.in_quotes


\* the loose branch that keeps a run takes the run at the cursor
RunRetracted == pmode = "loose" /\ d.in_quotes /\ RunBeforeText

\* C11: a step that measures a run of odd length n and does not take the loose
\* branch that keeps it (strict mode always; loose mode outside a quoted field,
\* or with the separator or the end of the line after the run) negates
\* in_quotes and appends exactly (n - 1) / 2 quotes to the accumulator.
C11_OddRunToggles ==
    [][(AtRun /\ RunLen % 2 = 1 /\ ~RunRetracted) =>
          /\ d'.in_quotes = ~d.in_quotes
          /\ d'.field = d.field \o Quotes((RunLen - 1) \div 2)]_vars

\* C11, witness: in strict mode the run of three quotes of "a""" closed the
\* field and left one quote in it.
C11_Witness ==
    /\ pmode = "strict"
    /\ d.pc = "scan"
    /\ Len(s) = 6
    /\ SubSeq(s, 1, 5) = <<DQUOTE, "a", DQUOTE, DQUOTE, DQUOTE>>
    /\ s[6] = sep
    /\ d.it = 6
    /\ ~d.in_quotes
    /\ d.field = <<"a", DQUOTE>>

\* the pieces of str between consecutive occurrences of ch
RECURSIVE SplitAt(_, _)
SplitAt(str, ch) ==
    LET at == {i \in 1..Len(str) : str[i] = ch}
    IN  IF at = {} THEN <<str>>
        ELSE LET i == CHOOSE j \in at : \A k \in at : j <= k
             IN  <<SubSeq(str, 1, i - 1)>> \o SplitAt(SubSeq(str, i + 1, Len(str)), ch)

NoQuote(str) == \A i \in 1..Len(str) : str[i] # DQUOTE
OnlyQuotes(str) == \A i \in 1..Len(str) : str[i] = DQUOTE

\* every piece of the line is free of quotes or is 2k quotes, k >= 1
QuotesOnlyFields ==
    \A i \in 1..Len(SplitAt(s, sep)) :
        LET piece == SplitAt(s, sep)[i]
        IN  \/ NoQuote(piece)
            \/ OnlyQuotes(piece) /\ Len(piece) % 2 = 0

\* the decode of such a line ended in st: it is complete, and a piece of 2k
\* quotes gave k - 1 quotes
QuotesOnlyFieldsDecoded(st) ==
    (st.pc \in {"done", "error"} /\ QuotesOnlyFields) =>
        /\ OnlyQuotes(s) => st.pc = "done"
        /\ st.pc = "done" =>
              /\ Len(st.out) = Len(SplitAt(s, sep))
              /\ \A i \in 1..Len(st.out) :
                     LET piece == SplitAt(s, sep)[i]
                     IN  (piece # <<>> /\ OnlyQuotes(piece)) =>
                             st.out[i] = Quotes(Len(piece) \div 2 - 1)

\* C12: a step that measures a run of even length n leaves in_quotes as it is
\* and appends n / 2 quotes to the accumulator, or (n - 2) / 2 when the
\* accumulator is empty, the run then beginning the field; and so, in both
\* modes, a line of 2k quotes (k >= 1) decodes to the one field of k - 1
\* quotes, and every field of a line that is 2k quotes decodes to k - 1 quotes.
C12_EvenRunEmbedded ==
    [][/\ (AtRun /\ RunLen % 2 = 0) =>
             /\ d'.in_quotes = d.in_quotes
             /\ d.field = <<>> => ~d.in_quotes
             /\ d'.field = d.field \o
                    Quotes(IF d.field = <<>> THEN (RunLen - 2) \div 2 ELSE RunLen \div 2)
       /\ s' = s => QuotesOnlyFieldsDecoded(d')]_vars

\* C12, witness: the line of four quotes, the separator and two quotes has
\* been decoded in loose mode to a field of one quote and an empty field.
C12_Witness ==
    /\ pmode = "loose"
    /\ s = Quotes(4) \o <<sep>> \o Quotes(2)
    /\ d.pc = "done"
    /\ d.out = <<Quotes(1), <<>>>>

\* C13: inside a quoted field every character that is not a quote, the
\* separator and the newline included, is appended to the accumulator in both
\* modes: the step ends no field, raises no error and leaves in_quotes set.
C13_QuotedFieldLiteral ==
    [][(Scanning /\ d.in_quotes /\ s[d.it] # DQUOTE) =>
          /\ d'.field = Append(d.field, s[d.it])
          /\ d'.in_quotes
          /\ d'.out = d.out
          /\ nsep' = nsep
          /\ d'.pc = "scan"
          /\ d'.err = "none"
          /\ d'.it = d.it + 1]_vars

\* C13, witness: in strict mode a quoted field holds the separator and a
\* newline, and the decoder is still inside it.
C13_Witness ==
    /\ pmode = "strict"
    /\ d.pc = "scan"
    /\ d.in_quotes
    /\ d.out = <<>>
    /\ d.field = <<sep, NL>>

\* C14: a line with no quote (and, in strict mode, no newline) decodes without
\* an error to the pieces of the line between consecutive separators, in order
\* and character for character; a character other than the separator of the
\* call, the other separator character included, does not split.
C14_UnquotedLineSplit ==
    (NoQuote(s) /\ (pmode = "strict" => NoNewline(s))) =>
        /\ d.pc # "error"
        /\ d.pc = "done" => d.out = SplitAt(s, sep)

\* C14, witness: decoded with ';', the line a,;, gave the two fields a, and ,
C14_Witness ==
    /\ sep = SEMI
    /\ s = <<"a", COMMA, SEMI, COMMA>>
    /\ d.pc = "done"
    /\ d.out = <<<<"a", COMMA>>, <<COMMA>>>>

\* C15: when the line ends inside a quoted field, the decode does not fail in
\* either mode: the accumulator as it stands is written as the last field.
C15_UnterminatedQuotedField ==
    [][(d.pc = "scan" /\ d.it = Len(s) + 1 /\ d.in_quotes) =>
          /\ d'.pc = "done"
          /\ d'.err = "none"
          /\ d'.out = Append(d.out, d.field)]_vars

\* C15, witness: in strict mode the line a,"a, ended inside the quoted field
\* and the decode returned the fields a and a,
C15_Witness ==
    /\ pmode = "strict"
    /\ sep = COMMA
    /\ s = <<"a", COMMA, DQUOTE, "a", COMMA>>
    /\ d.pc = "done"
    /\ d.in_quotes
    /\ d.out = <<<<"a">>, <<"a", COMMA>>>>

\* the number of quotes among the first j characters of str
QuotesIn(str, j) == Cardinality({i \in 1..j : str[i] = DQUOTE})

\* inner is str, in order, with every quote doubled
Doubled(inner, str) ==
    /\ Len(inner) = Len(str) + QuotesIn(str, Len(str))
    /\ \A j \in 1..Len(str) :
          /\ inner[j + QuotesIn(str, j - 1)] = str[j]
          /\ str[j] = DQUOTE => inner[j + QuotesIn(str, j - 1) + 1] = DQUOTE

\* every maximal run of quotes of str has even length
EvenQuoteRuns(str) ==
    \A a \in 1..Len(str) : \A b \in a..Len(str) :
        ( /\ OnlyQuotes(SubSeq(str, a, b))
          /\ a = 1 \/ str[a - 1] # DQUOTE
          /\ b = Len(str) \/ str[b + 1] # DQUOTE ) => (b - a + 1) % 2 = 0

\* C16: encode_field(f) is one quote, the characters of f in order with every
\* quote doubled, and one quote; its length is length(f) + 2 + the number of
\* quotes in f, which is the capacity reserved; every maximal run of quotes
\* between its first and its last character has even length.
C16_EncodeField ==
    \A i \in 1..(start - 1) :
        LET f == fields[i]
            e == eout[2 * i - 1]
            inner == SubSeq(e, 2, Len(e) - 1)
        IN  /\ Len(e) >= 2
            /\ e[1] = DQUOTE
            /\ e[Len(e)] = DQUOTE
            /\ Doubled(inner, f)
            /\ Len(e) = Len(f) + 2 + QuotesIn(f, Len(f))
            /\ Len(e) = encode_reserve(f)
            /\ EvenQuoteRuns(inner)

\* C16, witness: the field ""a" has been encoded as """""a"""
C16_Witness ==
    /\ start = 2
    /\ fields = <<<<DQUOTE, DQUOTE, "a", DQUOTE>>>>
    /\ eout[1] = Quotes(5) \o <<"a">> \o Quotes(3)

\* C17: encode_line over n fields writes encode_field of every field, in
\* order, with the separator string between consecutive fields and nothing
\* after the last: 2n - 1 items for n >= 1, no item for an empty range.
C17_EncodeLine ==
    epc = "done" =>
        /\ Len(eout) = IF Len(fields) = 0 THEN 0 ELSE 2 * Len(fields) - 1
        /\ \A i \in 1..Len(fields) : eout[2 * i - 1] = encode_field(fields[i])
        /\ \A i \in 1..(Len(fields) - 1) : eout[2 * i] = esep

\* C17, witness: the fields a and " have been encoded with ";" to three items.
C17_Witness ==
    /\ epc = "done"
    /\ esep = <<SEMI>>
    /\ fields = <<<<"a">>, <<DQUOTE>>>>
    /\ eout = <<<<DQUOTE, "a", DQUOTE>>, <<SEMI>>, Quotes(4)>>

\* C18: the steps of two calls of parse_line on independent inputs interleave
\* in any order, and each call ends with the fields or the error of the call
\* made alone; two calls with the same line, separator and mode end alike.
C18_CallsShareNoState ==
    /\ d.pc \in {"done", "error"} => d = parse_line(s, sep, pmode)
    /\ d2.pc \in {"done", "error"} => d2 = parse_line(s2, sep2, pmode2)
    /\ ( /\ d.pc \in {"done", "error"}
         /\ d2.pc \in {"done", "error"}
         /\ <<s, sep, pmode>> = <<s2, sep2, pmode2>> ) => d = d2

\* C18, witness: the first call, in strict mode with ',', has returned two
\* fields while the second, in loose mode with ';', is in the middle of its
\* line with a character in its accumulator.
C18_Witness ==
    /\ pmode = "strict" /\ sep = COMMA
    /\ pmode2 = "loose" /\ sep2 = SEMI
    /\ s = <<"a", COMMA>>
    /\ d.pc = "done"
    /\ d.out = <<<<"a">>, <<>>>>
    /\ s2 = <<COMMA, DQUOTE>>
    /\ d2.pc = "scan"
    /\ d2.it = 2
    /\ d2.field = <<COMMA>>

\* C19: in_quotes changes only in a step that measures a run of odd length and
\* does not take the loose branch that keeps it; every other step (a kept run,
\* an even run, a literal quote in an unquoted field, a separator, any other
\* character, the end of the line) leaves it as it is.
C19_InQuotesFrame ==
    [][(d'.in_quotes # d.in_quotes) =>
          (AtRun /\ RunLen % 2 = 1 /\ ~RunRetracted)]_vars

\* C19, witness: the line "a""a" has been decoded: in_quotes was set by the
\* first quote, kept by the run of two and cleared by the last quote.
C19_Witness ==
    /\ s = <<DQUOTE, "a", DQUOTE, DQUOTE, "a", DQUOTE>>
    /\ d.pc = "done"
    /\ ~d.in_quotes
    /\ d.out = <<<<"a", DQUOTE, "a">>>>

\* a step of parse_line moves the iterator forward and counts as one iteration
Advances ==
    /\ d.it # Len(s) + 1 =>
          /\ niter' = niter + 1
          /\ d'.it <= Len(s) + 1
          /\ d'.pc \in {"scan", "error"}
          /\ d'.pc = "scan" => d'.it > d.it
          /\ (~AtRun /\ d'.pc = "scan") => d'.it = d.it + 1
          /\ AtRun =>
                /\ RunLen >= 1
                /\ d'.it = d.it + RunLen
                /\ d'.it - 1 >= d.it
    /\ d.it = Len(s) + 1 =>
          /\ niter' = niter
          /\ d'.pc = "done"

\* C20: every step of a call of parse_line that has not ended is the return
\* after the loop or an iteration that raises an error or moves the iterator
\* forward: by one for a character, a separator or a literal quote, by the
\* length n >= 1 of a measured run, whose --it stays at or after the start of
\* the run, and never past the end of the line. The call therefore ends, by
\* returning or by raising an error, after at most Len(s) iterations.
C20_Terminates ==
    [][d.pc = "scan" =>
          /\ Advances
          /\ niter' <= Len(s)
          /\ niter' <= d'.it - 1 \/ d'.pc = "error"]_vars

\* C20, witness: in loose mode the six characters of """"aa were decoded in
\* three iterations.
C20_Witness ==
    /\ pmode = "loose"
    /\ s = Quotes(4) \o <<"a", "a">>
    /\ d.pc = "done"
    /\ d.it = 7
    /\ niter = 3

\* str is the beginning of longer
IsPrefix(str, longer) ==
    /\ Len(str) <= Len(longer)
    /\ SubSeq(longer, 1, Len(str)) = str

\* C21: the fields parse_line has written are never changed, removed or
\* reordered: a step leaves the sink as it is or appends one field to it. The
\* field appended is the accumulator, at a separator outside a quoted field
\* or at the end of the line; the accumulator is then empty again, and every
\* other step only appends to it, so the i-th field is what was accumulated
\* between the (i-1)-th and the i-th such separator.
C21_OutputAppendOnly ==
    [][d.pc = "scan" =>
          /\ d'.out = d.out \/ d'.out = Append(d.out, d.field)
          /\ Len(d'.out) = Len(d.out) + 1 <=>
                \/ d.it = Len(s) + 1
                \/ d.it # Len(s) + 1 /\ s[d.it] = sep /\ ~d.in_quotes
          /\ (d.it # Len(s) + 1 /\ Len(d'.out) = Len(d.out) + 1) =>
                /\ d'.field = <<>>
                /\ Len(d'.out) = nsep'
          /\ Len(d'.out) = Len(d.out) => IsPrefix(d.field, d'.field)]_vars

\* C21, witness: the line a,",", has been decoded with ',' to the fields a,
\* the separator, and the empty field, in that order.
C21_Witness ==
    /\ sep = COMMA
    /\ s = <<"a", COMMA, DQUOTE, COMMA, DQUOTE, COMMA>>
    /\ d.pc = "done"
    /\ d.out = <<<<"a">>, <<COMMA>>, <<>>>>

\* C22: on a line that strict mode decodes without an error, loose mode goes
\* through the same iterator, accumulator, in_quotes and sink at every step
\* and returns the same fields.
C22_LooseExtendsStrict ==
    [][(pmode = "strict" /\ d.pc = "scan" /\ d'.pc # "error") =>
          /\ d.it # Len(s) + 1 => d' = loop_body(s, sep, "loose", d)
          /\ d'.pc = "done" => d' = parse_line(s, sep, "loose")]_vars

\* C22, witness: strict mode has decoded the line "a""", to the fields a" and
\* the empty field, as loose mode does.
C22_Witness ==
    /\ pmode = "strict"
    /\ s = <<DQUOTE, "a", DQUOTE, DQUOTE, DQUOTE, sep>>
    /\ d.pc = "done"
    /\ d.out = <<<<"a", DQUOTE>>, <<>>>>
    /\ parse_line(s, sep, "loose").out = d.out

\* C23: where a run is measured inside a quoted field the accumulator is not
\* empty; a run measured with an empty accumulator (the one whose even length
\* is discounted by two quotes) is outside a quoted field and at the start of
\* a field: at the start of the line or right after a separator.
C23_DiscountOutsideQuotes ==
    /\ (AtRun /\ d.in_quotes) => d.field # <<>>
    /\ (AtRun /\ d.field = <<>>) =>
          /\ ~d.in_quotes
          /\ d.it = 1 \/ s[d.it - 1] = sep

\* C23, witness: in loose mode the decoder is inside the quoted field of
\* a,"," at its closing quote, with the separator in the accumulator.
C23_Witness ==
    /\ pmode = "loose"
    /\ s = <<"a", sep, DQUOTE, sep, DQUOTE>>
    /\ d.pc = "scan"
    /\ d.it = 5
    /\ d.in_quotes
    /\ d.field = <<sep>>

\* C24: for every non-empty sequence of fields, fields with newlines
\* included, decoding encode_line(fields, ",") with ',' returns the fields,
\* in loose mode as in strict mode.
C24_RoundTripBothModes ==
    (origin = "fields" /\ esep = <<COMMA>> /\ sep = COMMA /\ fields # <<>>) =>
        /\ d.pc # "error"
        /\ d.pc = "done" => d.out = fields

\* C24, witness: in loose mode the fields newline-quote and comma-a came back
\* from the line "<newline>""",",a".
C24_Witness ==
    /\ origin = "fields"
    /\ esep = <<COMMA>>
    /\ sep = COMMA
    /\ pmode = "loose"
    /\ fields = <<<<NL, DQUOTE>>, <<COMMA, "a">>>>
    /\ d.pc = "done"
    /\ d.out = fields

\* the earlier parse_line ended as the final one did in strict mode
SameResult ==
    \/ d.pc = "done" /\ d2.pc = "done" /\ d2.out = d.out
    \/ /\ d.pc = "error" /\ d2.pc = "error"
       /\ d2.it = d.it
       /\ d2.err = d.err

\* C25, as stated: for every line and separator the earlier parse_line and
\* the final one in strict mode return the same fields, or both fail, at the
\* same position and for the same one of the three reasons.
C25_StrictEqualsEarlier ==
    d2.pc \in {"done", "error", "crash"} => SameResult

\* what holds: the two end alike unless the earlier one went past the end of
\* its string literal, and the two snapshots append the same quotes for a run
EarlierEqualWhereDefined ==
    /\ d2.pc \in {"done", "error"} => SameResult
    /\ d2.pc = "crash" =>
          /\ d.pc = "error" /\ d.err = InvalidSeparatorAfterQuotedField
          /\ d2.it = d.it
          /\ char_code(s2[d2.it]) > Len(InvalidSeparatorLiteral)
    /\ \A n \in 1..Len(s2) : \A fld \in {<<>>, <<"a">>} :
          first_quotes(n, fld) = earlier_quotes(n, fld)


============================================================================
